---- MODULE Spec2Model ----
(***************************************************************************)
(* Alarm notification pipeline of main.py: the BACnet event handler        *)
(* AlarmListenerApplication.confirmedEventNotificationRequest, the CSV     *)
(* alarm log, the global rate limiter last_alert_time and the SMS / email  *)
(* delivery threads it starts.                                             *)
(*                                                                         *)
(* Python's None is the empty sequence <<>>, a present value x is <<x>>.   *)
(***************************************************************************)
EXTENDS Integers, Sequences, FiniteSets, TLC

VARIABLES
    clock,            \* reading of the local clock (time.time(), datetime.now())
    last_alert_time,  \* module global, main.py line 48
    alarm_log,        \* rows of the file ALARM_LOG_FILE
    alarms,           \* one record per inbound notification, in arrival order
    pc,               \* position of each handler invocation context
    cur,              \* the alarm a handler context is working on (0: none)
    current_time,     \* local variable current_time of each handler context
    number            \* loop index over SMS_RECIPIENTS of each handler context

vars == <<clock, last_alert_time, alarm_log, alarms, pc, cur, current_time, number>>

-----------------------------------------------------------------------------
(* Program constants *)

ALERT_INTERVAL == 300

\* SMS_RECIPIENTS holds two numbers, addressed here by their index
SMS_RECIPIENTS == <<1, 2>>

\* EMAIL_RECIPIENTS holds two addresses, addressed here by their index
EMAIL_RECIPIENTS == <<1, 2>>

\* main.py uses requests.post but never imports requests (lines 6-21)
RequestsImported == FALSE

None == <<>>

Some(x) == <<x>>

-----------------------------------------------------------------------------
(* Bounds of the model *)

MaxAlarms == 2

\* clock readings the environment can produce; the clock is not monotonic
Times == {0, 10, 305, 605}

\* inbound notifications: messageText and timeStamp, each absent or present
Notifications ==
    { [messageText |-> Some("High temp"), timeStamp |-> Some(10)],
      [messageText |-> None,              timeStamp |-> Some(10)],
      [messageText |-> Some("High temp"), timeStamp |-> None] }

\* HTTP answers of the SMS gateway; 0 stands for a transport error
HttpStatuses == {0, 200, 500}

\* invocation contexts of the handler; the BACpypes core loop is context 1
Handlers == {1, 2}

MainLoop == 1

-----------------------------------------------------------------------------
(* State after module import and construction *)

NewAlarm(msg, ts) ==
    [ messageText  |-> msg,
      timeStamp    |-> ts,
      logCalls     |-> 0,
      logError     |-> FALSE,
      decision     |-> "none",
      decidedAt    |-> None,
      remaining    |-> None,
      sms          |-> [i \in DOMAIN SMS_RECIPIENTS |-> "none"],
      email        |-> "none",
      caught       |-> FALSE,
      returned     |-> FALSE ]

Init ==
    /\ clock \in Times
    /\ last_alert_time = 0
    /\ alarm_log = <<>>
    /\ alarms = <<>>
    /\ pc = [h \in Handlers |-> "idle"]
    /\ cur = [h \in Handlers |-> 0]
    /\ current_time = [h \in Handlers |-> 0]
    /\ number = [h \in Handlers |-> 0]

-----------------------------------------------------------------------------
(* AlarmListenerApplication.confirmedEventNotificationRequest, statement by *)
(* statement, for the invocation context h                                  *)

Alarm(h) == alarms[cur[h]]

SetAlarm(h, rec) == alarms' = [alarms EXCEPT ![cur[h]] = rec]

\* a handler that makes the deliveries itself before it takes the next
\* notification: no notification is received while a delivery is running
Receive_AfterJoin(h) ==
    /\ pc[h] = "idle"
    /\ Len(alarms) < MaxAlarms
    /\ \A a \in DOMAIN alarms :
          /\ alarms[a].email # "running"
          /\ \A i \in DOMAIN SMS_RECIPIENTS : alarms[a].sms[i] # "running"
    /\ \E t \in Times : clock' = t
    /\ \E apdu \in Notifications :
          alarms' = Append(alarms, NewAlarm(apdu.messageText, apdu.timeStamp))
    /\ cur' = [cur EXCEPT ![h] = Len(alarms) + 1]
    /\ pc' = [pc EXCEPT ![h] = "log"]
    /\ UNCHANGED <<last_alert_time, alarm_log, current_time, number>>

\* lines 109-115: a notification arrives at some reading of the local clock
\* (the clock may have stepped backwards since the last one); timeStamp and
\* messageText are read with getattr(..., None)
Receive(h) ==
    /\ pc[h] = "idle"
    /\ Len(alarms) < MaxAlarms
    /\ \E t \in Times : clock' = t
    /\ \E apdu \in Notifications :
          alarms' = Append(alarms, NewAlarm(apdu.messageText, apdu.timeStamp))
    /\ cur' = [cur EXCEPT ![h] = Len(alarms) + 1]
    /\ pc' = [pc EXCEPT ![h] = "log"]
    /\ UNCHANGED <<last_alert_time, alarm_log, current_time, number>>

\* csv.writer writes None as an empty field (here <<>>) and any other value
\* as its text
CsvField(v) == IF v = None THEN <<>> ELSE v

\* a log_alarm that fills a missing occurrence time with the time of logging
LogRow_DefaultsToNow(last_update, message) ==
    [ logged_at   |-> CsvField(Some(clock)),
      occurred_at |-> CsvField(IF last_update = None THEN Some(clock) ELSE last_update),
      message     |-> CsvField(message) ]

\* log_alarm, line 67: the row [datetime.now(), last_update, message]
LogRow(last_update, message) ==
    [ logged_at   |-> CsvField(Some(clock)),
      occurred_at |-> CsvField(last_update),
      message     |-> CsvField(message) ]

\* a handler that logs only inside the admitted branch: line 118 is skipped
LogAlarm_Skipped(h) ==
    /\ pc[h] = "log"
    /\ pc' = [pc EXCEPT ![h] = "rate"]
    /\ UNCHANGED <<clock, last_alert_time, alarm_log, alarms, cur, current_time, number>>

\* line 118 and log_alarm (62-69): the row is appended, or open/writerow raise
\* and the except clause reports it; either way log_alarm returns normally
LogAlarm(h) ==
    /\ pc[h] = "log"
    /\ \E ok \in BOOLEAN :
          /\ alarm_log' = IF ok
                THEN Append(alarm_log, LogRow(Alarm(h).timeStamp, Alarm(h).messageText))
                ELSE alarm_log
          /\ SetAlarm(h, [Alarm(h) EXCEPT !.logCalls = @ + 1, !.logError = ~ok])
    /\ pc' = [pc EXCEPT ![h] = "rate"]
    /\ UNCHANGED <<clock, last_alert_time, cur, current_time, number>>

\* the test written with > instead of >=
Elapsed_Strict(now, last) == now - last > ALERT_INTERVAL

\* line 122: the rate-limit test
Elapsed(now, last) == now - last >= ALERT_INTERVAL

\* a rate limit kept per kind of event: an event without message text is
\* not counted against the cooldown of the others
RateCheck_PerMessage(h) ==
    /\ pc[h] = "rate"
    /\ current_time' = [current_time EXCEPT ![h] = clock]
    /\ LET admit == Elapsed(clock, last_alert_time) \/ Alarm(h).messageText = None IN
          /\ SetAlarm(h, [Alarm(h) EXCEPT
                            !.decision = IF admit THEN "admitted" ELSE "suppressed",
                            !.decidedAt = Some(clock)])
          /\ pc' = [pc EXCEPT ![h] = IF admit THEN "admit" ELSE "suppress"]
    /\ UNCHANGED <<clock, last_alert_time, alarm_log, cur, number>>

\* lines 121-122: current_time = time.time(), then the test reads last_alert_time
RateCheck(h) ==
    /\ pc[h] = "rate"
    /\ current_time' = [current_time EXCEPT ![h] = clock]
    /\ LET admit == Elapsed(clock, last_alert_time) IN
          /\ SetAlarm(h, [Alarm(h) EXCEPT
                            !.decision = IF admit THEN "admitted" ELSE "suppressed",
                            !.decidedAt = Some(clock)])
          /\ pc' = [pc EXCEPT ![h] = IF admit THEN "admit" ELSE "suppress"]
    /\ UNCHANGED <<clock, last_alert_time, alarm_log, cur, number>>

\* line 123: last_alert_time = current_time
Admit(h) ==
    /\ pc[h] = "admit"
    /\ last_alert_time' = current_time[h]
    /\ number' = [number EXCEPT ![h] = 1]
    /\ pc' = [pc EXCEPT ![h] = "sms"]
    /\ UNCHANGED <<clock, alarm_log, alarms, cur, current_time>>

\* the handler returns to its caller
Return(h) ==
    /\ pc' = [pc EXCEPT ![h] = "idle"]
    /\ cur' = [cur EXCEPT ![h] = 0]
    /\ number' = [number EXCEPT ![h] = 0]

\* a loop that stops one recipient early
StartSms_StopsEarly(h) ==
    /\ pc[h] = "sms"
    /\ SetAlarm(h, [Alarm(h) EXCEPT !.sms[number[h]] = "running"])
    /\ IF number[h] < Len(SMS_RECIPIENTS) - 1
          THEN /\ number' = [number EXCEPT ![h] = @ + 1]
               /\ UNCHANGED pc
          ELSE /\ pc' = [pc EXCEPT ![h] = "email"]
               /\ UNCHANGED number
    /\ UNCHANGED <<clock, last_alert_time, alarm_log, cur, current_time>>

\* lines 126-127: Thread(target=send_sms_via_teltonika, ...).start() for the
\* next number of SMS_RECIPIENTS
StartSms(h) ==
    /\ pc[h] = "sms"
    /\ SetAlarm(h, [Alarm(h) EXCEPT !.sms[number[h]] = "running"])
    /\ IF number[h] < Len(SMS_RECIPIENTS)
          THEN /\ number' = [number EXCEPT ![h] = @ + 1]
               /\ UNCHANGED pc
          ELSE /\ pc' = [pc EXCEPT ![h] = "email"]
               /\ UNCHANGED number
    /\ UNCHANGED <<clock, last_alert_time, alarm_log, cur, current_time>>

\* line 130: Thread(target=send_email_alert, ...).start(); the handler returns
StartEmail(h) ==
    /\ pc[h] = "email"
    /\ SetAlarm(h, [Alarm(h) EXCEPT !.email = "running", !.returned = TRUE])
    /\ Return(h)
    /\ UNCHANGED <<clock, last_alert_time, alarm_log, current_time>>

\* a handler without the except clause of lines 134-135: the RuntimeError
\* leaves the handler, which is abandoned without a normal return
StartFails_Propagates(h) ==
    /\ pc[h] \in {"sms", "email"}
    /\ Return(h)
    /\ UNCHANGED <<clock, last_alert_time, alarm_log, alarms, current_time>>

\* lines 127/130 and 134-135: Thread.start() raises RuntimeError (no new thread
\* can be started); the except clause of the handler reports it and the
\* handler returns
StartFails(h) ==
    /\ pc[h] \in {"sms", "email"}
    /\ SetAlarm(h, [Alarm(h) EXCEPT !.caught = TRUE, !.returned = TRUE])
    /\ Return(h)
    /\ UNCHANGED <<clock, last_alert_time, alarm_log, current_time>>

\* line 132: the remaining time printed by the else branch
Remaining(now, last) == ALERT_INTERVAL - (now - last)

\* a handler that stores current_time outside the if, so also when it
\* suppresses
Suppress_Updates(h) ==
    /\ pc[h] = "suppress"
    /\ SetAlarm(h, [Alarm(h) EXCEPT
                      !.remaining = Some(Remaining(current_time[h], last_alert_time)),
                      !.returned = TRUE])
    /\ last_alert_time' = current_time[h]
    /\ Return(h)
    /\ UNCHANGED <<clock, alarm_log, current_time>>

\* line 132: the suppression diagnostic (it reads last_alert_time again)
Suppress(h) ==
    /\ pc[h] = "suppress"
    /\ SetAlarm(h, [Alarm(h) EXCEPT
                      !.remaining = Some(Remaining(current_time[h], last_alert_time)),
                      !.returned = TRUE])
    /\ Return(h)
    /\ UNCHANGED <<clock, last_alert_time, alarm_log, current_time>>

Handler(h) ==
    \/ Receive(h)
    \/ LogAlarm(h)
    \/ RateCheck(h)
    \/ Admit(h)
    \/ StartSms(h)
    \/ StartEmail(h)
    \/ StartFails(h)
    \/ Suppress(h)

-----------------------------------------------------------------------------
(* The delivery threads *)

SetTask(a, rec) ==
    /\ alarms' = [alarms EXCEPT ![a] = rec]
    /\ UNCHANGED <<clock, last_alert_time, alarm_log, pc, cur, current_time, number>>

\* send_sms_via_teltonika (74-84): what one attempt reports when the gateway
\* would answer st. The name requests is unbound, so line 78 raises NameError
\* before any request is made, and line 83 catches it.
SmsReport(st) ==
    IF RequestsImported
        THEN (IF st = 200 THEN "sent" ELSE "failed")
        ELSE "failed"

\* the outcomes of one attempt, over the answers of the gateway
SmsOutcomes == {SmsReport(st) : st \in HttpStatuses}

SmsRun(a, i) ==
    /\ alarms[a].sms[i] = "running"
    /\ \E out \in SmsOutcomes : SetTask(a, [alarms[a] EXCEPT !.sms[i] = out])

\* send_email_alert (89-103): the outcome of one attempt.
\*   "failed"      MIMEText(message) raises for message None (line 91), or
\*                 smtplib.SMTP(...) cannot connect (line 96)
\*   "failed_open" starttls, login or sendmail raises (97-99): server.quit()
\*                 at line 100 is skipped and nothing else closes the
\*                 connection; it stays open until the interpreter happens
\*                 to finalise the SMTP object
\*   "sent"        lines 91-101 all succeed
EmailOutcomes(message) ==
    IF message = None THEN {"failed"} ELSE {"failed", "failed_open", "sent"}

\* deliveries made one after the other in one worker, where an SMS failure
\* ends the sequence before the email is attempted
EmailRun_AfterSms(a) ==
    /\ alarms[a].email = "running"
    /\ \A i \in DOMAIN SMS_RECIPIENTS : alarms[a].sms[i] # "failed"
    /\ \E out \in EmailOutcomes(alarms[a].messageText) :
          SetTask(a, [alarms[a] EXCEPT !.email = out])

EmailRun(a) ==
    /\ alarms[a].email = "running"
    /\ \E out \in EmailOutcomes(alarms[a].messageText) :
          SetTask(a, [alarms[a] EXCEPT !.email = out])

Threads ==
    \E a \in DOMAIN alarms :
        \/ \E i \in DOMAIN SMS_RECIPIENTS : SmsRun(a, i)
        \/ EmailRun(a)

\* the delivery tasks launched for alarm a, each with the recipients its
\* thread was given: args=(number, message) at line 127, and
\* args=("BACnet Alarm", message, EMAIL_RECIPIENTS) at line 130
TasksOf(a) ==
    {[channel |-> "sms", to |-> <<SMS_RECIPIENTS[i]>>] :
        i \in {j \in DOMAIN SMS_RECIPIENTS : alarms[a].sms[j] # "none"}}
    \cup (IF alarms[a].email # "none"
            THEN {[channel |-> "email", to |-> EMAIL_RECIPIENTS]}
            ELSE {})

-----------------------------------------------------------------------------
(* The program: BACpypes' run() calls the handler from its single core loop, *)
(* so one invocation runs to its return before the next begins              *)

Next == Handler(MainLoop) \/ Threads

Spec == Init /\ [][Next]_vars

\* Scheduling: the core loop goes on with a handler it has entered, and an SMS
\* thread runs to its end (it makes no request). The email thread gets no
\* fairness: smtplib.SMTP(SMTP_SERVER, SMTP_PORT) and the calls on it are
\* made without a timeout, so they block for as long as the server is silent.
SmsThread(a, i) == a \in DOMAIN alarms /\ SmsRun(a, i)

SpecLive ==
    /\ Spec
    /\ WF_vars(Handler(MainLoop))
    /\ \A a \in 1..MaxAlarms : \A i \in DOMAIN SMS_RECIPIENTS : WF_vars(SmsThread(a, i))

\* the handler entered from several threads at once
NextConc == (\E h \in Handlers : Handler(h)) \/ Threads

SpecConc == Init /\ [][NextConc]_vars

-----------------------------------------------------------------------------
(* Vocabulary of the properties *)

Ids == DOMAIN alarms

Decided(a) == alarms[a].decision # "none"

Admitted(a) == alarms[a].decision = "admitted"

Suppressed(a) == alarms[a].decision = "suppressed"

\* the clock reading the rate-limit check of alarm a used
TimeOf(a) == alarms[a].decidedAt[1]

\* the delivery tasks launched for alarm a
LaunchedSms(a) == {i \in DOMAIN SMS_RECIPIENTS : alarms[a].sms[i] # "none"}

EmailLaunched(a) == alarms[a].email # "none"

AllLaunched(a) == LaunchedSms(a) = DOMAIN SMS_RECIPIENTS /\ EmailLaunched(a)

NoneLaunched(a) == LaunchedSms(a) = {} /\ ~EmailLaunched(a)

\* the alarms admitted before alarm a, and the latest of them
PriorAdmitted(a) == {b \in Ids : b < a /\ Admitted(b)}

LastPrior(a) == CHOOSE b \in PriorAdmitted(a) : \A c \in PriorAdmitted(a) : c <= b

-----------------------------------------------------------------------------
\* C1: every inbound alarm causes exactly one call of log_alarm, and that call
\* is made before the rate-limit decision for the alarm, whether the alarm is
\* then admitted or suppressed: never more than one call, exactly one by the
\* time the decision exists, and exactly one when the handler has returned.
LoggedOnceBeforeRateCheck ==
    \A a \in Ids :
        /\ alarms[a].logCalls <= 1
        /\ Decided(a) => alarms[a].logCalls = 1
        /\ alarms[a].returned => alarms[a].logCalls = 1

\* a suppressed and an admitted alarm, both handled to the end and logged once
LoggedOnceWitness ==
    \E a, b \in Ids :
        /\ Suppressed(a) /\ alarms[a].returned /\ alarms[a].logCalls = 1
        /\ Admitted(b) /\ alarms[b].returned /\ alarms[b].logCalls = 1

\* C2: the rate-limit check admits an alarm if and only if no alarm was
\* admitted before it or its clock reading is at least the cooldown after the
\* reading of the last admitted alarm; in particular the first alarm of a
\* process is admitted whatever the clock reads.
TryAdmitAsSpecified ==
    \A a \in Ids :
        Decided(a) =>
            ( Admitted(a) <=>
                \/ PriorAdmitted(a) = {}
                \/ TimeOf(a) - TimeOf(LastPrior(a)) >= ALERT_INTERVAL )

\* C3: when all the alarms of a process arrive strictly less than the cooldown
\* apart, exactly one of them is admitted, the first, and every one is logged.
BurstAdmitsFirstOnly ==
    ( /\ Ids # {}
      /\ \A a \in Ids : alarms[a].returned
      /\ \A a, b \in Ids : TimeOf(a) - TimeOf(b) < ALERT_INTERVAL )
    => /\ {a \in Ids : Admitted(a)} = {1}
       /\ \A a \in Ids : alarms[a].logCalls = 1

OneWinnerPerWindow ==
    \A a, b \in Ids :
        (a # b /\ Admitted(a) /\ Admitted(b))
        => \/ TimeOf(a) - TimeOf(b) >= ALERT_INTERVAL
           \/ TimeOf(b) - TimeOf(a) >= ALERT_INTERVAL

\* a delivery attempt that ended in failure
TaskFailed(st) == st \in {"failed", "failed_open"}

\* C6: a failed delivery attempt of an alarm never stops the other attempts
\* of that alarm: every launched attempt that has not finished can run, the
\* email attempt of an alarm with a message can still succeed, and a handler
\* that is launching tasks can go on launching, whatever its siblings did.
DeliveryIsolation ==
    /\ \A a \in Ids :
          /\ \A i \in DOMAIN SMS_RECIPIENTS :
                alarms[a].sms[i] = "running" => ENABLED SmsRun(a, i)
          /\ alarms[a].email = "running" => ENABLED EmailRun(a)
          /\ (alarms[a].email = "running" /\ alarms[a].messageText # None)
                => ENABLED (EmailRun(a) /\ alarms'[a].email = "sent")
    /\ \A h \in Handlers :
          /\ pc[h] = "sms" => ENABLED StartSms(h)
          /\ pc[h] = "email" => ENABLED StartEmail(h)

\* both SMS attempts of an alarm were made and failed, and its email was sent
DeliveryIsolationWitness ==
    \E a \in Ids :
        /\ \A i \in DOMAIN SMS_RECIPIENTS : alarms[a].sms[i] = "failed"
        /\ alarms[a].email = "sent"

\* some failure happened while alarm a was processed or delivered
HadFailure(a) ==
    \/ alarms[a].logError
    \/ alarms[a].caught
    \/ TaskFailed(alarms[a].email)
    \/ \E i \in DOMAIN SMS_RECIPIENTS : TaskFailed(alarms[a].sms[i])

\* C7: no failure leaves the handler: an alarm that no handler is working on
\* has been returned from normally, a caught exception ends in a normal
\* return, and the alarm handled after one that met a failure is logged and
\* rate-checked once it has been handled.
NoFailureEscapes ==
    \A a \in Ids :
        /\ (\A h \in Handlers : cur[h] # a) => alarms[a].returned
        /\ alarms[a].caught => alarms[a].returned
        /\ (HadFailure(a) /\ a + 1 \in Ids /\ alarms[a + 1].returned)
              => alarms[a + 1].logCalls = 1 /\ Decided(a + 1)

\* the log write and a worker start failed for one alarm, and the next alarm
\* was received, logged, rate-checked and returned from
NoFailureEscapesWitness ==
    \E a \in Ids :
        /\ alarms[a].logError /\ alarms[a].caught
        /\ a + 1 \in Ids
        /\ alarms[a + 1].returned /\ alarms[a + 1].logCalls = 1 /\ Decided(a + 1)

\* C8: an alarm whose log record could not be written was still handled to
\* the end: log_alarm was called and returned, the alarm was rate-checked,
\* and if it was admitted all its delivery tasks were launched.
LogFailureStillDispatches ==
    \A a \in Ids :
        (alarms[a].logError /\ alarms[a].returned)
        => /\ alarms[a].logCalls = 1
           /\ Decided(a)
           /\ Admitted(a) => AllLaunched(a)

\* the clock readings of the scenario of C9
Scenario == <<0, 10, 305>>

\* C9: in a fresh process with alarms at the clock readings 0, 10 and 305, the
\* first is admitted, the second is suppressed with 290 s reported as
\* remaining, the third is admitted with both SMS tasks and the email task
\* launched, and each is logged.
ScenarioAsSpecified ==
    ( /\ \A a \in Ids : a <= Len(Scenario)
      /\ \A a \in Ids : Decided(a) => TimeOf(a) = Scenario[a] )
    => /\ \A a \in Ids : Decided(a) => alarms[a].logCalls = 1
       /\ (1 \in Ids /\ Decided(1)) => Admitted(1)
       /\ (2 \in Ids /\ alarms[2].returned)
             => Suppressed(2) /\ alarms[2].remaining = Some(290)
       /\ (3 \in Ids /\ alarms[3].returned) => Admitted(3) /\ AllLaunched(3)

\* C10: for an event without message text no delivery task is launched
\* (the event is logged all the same).
MissingMessageNotDispatched ==
    \A a \in Ids :
        alarms[a].messageText = None
        => /\ NoneLaunched(a)
           /\ Decided(a) => alarms[a].logCalls = 1

\* the (channel, recipient) pairs of the configuration
ConfiguredPairs ==
    {[channel |-> "sms", to |-> <<SMS_RECIPIENTS[i]>>] : i \in DOMAIN SMS_RECIPIENTS}
    \cup {[channel |-> "email", to |-> <<EMAIL_RECIPIENTS[j]>>] :
            j \in DOMAIN EMAIL_RECIPIENTS}

FullDispatch ==
    {[channel |-> "sms", to |-> <<SMS_RECIPIENTS[i]>>] : i \in DOMAIN SMS_RECIPIENTS}
    \cup {[channel |-> "email", to |-> EMAIL_RECIPIENTS]}

Unfinished(st) == st = "running"

\* C12: the handler never waits for a delivery task: while tasks are running
\* (or hung) the idle core loop can receive the next alarm and every step of
\* the handler is ready to be taken, so the next alarm is received, logged
\* and rate-checked.
HandlerNeverWaits ==
    /\ (pc[MainLoop] = "idle" /\ Len(alarms) < MaxAlarms) => ENABLED Receive(MainLoop)
    /\ pc[MainLoop] = "log" => ENABLED LogAlarm(MainLoop)
    /\ pc[MainLoop] = "rate" => ENABLED RateCheck(MainLoop)
    /\ \A a \in Ids :
          (Admitted(a) /\ alarms[a].returned /\ ~alarms[a].caught)
          => \A h \in Handlers : cur[h] # a

\* all three tasks of an admitted alarm are still running when the next alarm
\* has been received, logged, rate-checked and returned from
HandlerNeverWaitsWitness ==
    \E a \in Ids :
        /\ Admitted(a)
        /\ \A i \in DOMAIN SMS_RECIPIENTS : Unfinished(alarms[a].sms[i])
        /\ Unfinished(alarms[a].email)
        /\ a + 1 \in Ids
        /\ alarms[a + 1].returned /\ alarms[a + 1].logCalls = 1 /\ Decided(a + 1)

\* the row of the log file that alarm a wrote (rows are in handling order)
RowOf(a) ==
    alarm_log[Cardinality({b \in Ids : b <= a /\ alarms[b].logCalls = 1
                                              /\ ~alarms[b].logError})]

LastAlertNeverDecreases == [][last_alert_time' >= last_alert_time]_vars

\* the admitted alarms whose handler has executed line 123
Written == {a \in Ids : Admitted(a) /\ \A h \in Handlers : ~(cur[h] = a /\ pc[h] = "admit")}

\* the clock reading of the latest of them, 0 when there is none
LastWritten ==
    IF Written = {} THEN 0
    ELSE TimeOf(CHOOSE a \in Written : \A b \in Written : b <= a)

\* C15: a suppressed alarm launches no SMS and no email task and raises no
\* exception in the handler; when its handler has returned it has its one log
\* call and its diagnostic; and it leaves last_alert_time alone: the variable
\* always holds the reading of the latest admitted alarm (0 before the first).
SuppressedChangesNothing ==
    /\ last_alert_time = LastWritten
    /\ \A a \in Ids :
          Suppressed(a)
          => /\ NoneLaunched(a)
             /\ ~alarms[a].caught
             /\ alarms[a].returned
                   => alarms[a].logCalls = 1 /\ alarms[a].remaining # None

\* an alarm was suppressed after an admitted one, at another clock reading,
\* and last_alert_time still holds the reading of the admitted one
SuppressedChangesNothingWitness ==
    \E a, b \in Ids :
        /\ a < b /\ Admitted(a) /\ Suppressed(b) /\ alarms[b].returned
        /\ TimeOf(b) # TimeOf(a)
        /\ last_alert_time = TimeOf(a)

\* C16: an SMS attempt reports success exactly when the gateway answers
\* HTTP 200, and a delivery failure for any other status or a transport
\* error (it never raises: every attempt ends in one of the two reports).
SmsReportsGatewayAnswer ==
    \A a \in Ids : \A i \in DOMAIN SMS_RECIPIENTS :
        alarms[a].sms[i] \in {"sent", "failed"}
        => \A st \in HttpStatuses :
              SmsReport(st) = IF st = 200 THEN "sent" ELSE "failed"

\* C17: no email attempt returns with the connection it opened still open.
EmailConnectionReleased ==
    \A a \in Ids : alarms[a].email # "failed_open"

\* an attempt of alarm a that was launched and has not terminated
EmailPending(a) == a \in Ids /\ Unfinished(alarms[a].email)

SmsPending(a, i) == a \in Ids /\ Unfinished(alarms[a].sms[i])

\* C18: every launched delivery attempt eventually terminates, with success
\* or with a reported failure, also when the remote end never answers.
EveryAttemptTerminates ==
    \A a \in 1..MaxAlarms :
        /\ EmailPending(a) ~> ~EmailPending(a)
        /\ \A i \in DOMAIN SMS_RECIPIENTS : SmsPending(a, i) ~> ~SmsPending(a, i)

\* the SMS attempts alone do terminate
EverySmsAttemptTerminates ==
    \A a \in 1..MaxAlarms : \A i \in DOMAIN SMS_RECIPIENTS :
        SmsPending(a, i) ~> ~SmsPending(a, i)

\* the value of last_alert_time after the first n alarms, computed from their
\* clock readings alone
RECURSIVE LastFromTimes(_)
LastFromTimes(n) ==
    IF n = 0 THEN 0
    ELSE IF TimeOf(n) - LastFromTimes(n - 1) >= ALERT_INTERVAL
            THEN TimeOf(n)
            ELSE LastFromTimes(n - 1)

\* C19: the decision for an alarm is a function of the clock readings of the
\* alarms up to it and of nothing else (not of message text, timeStamp or a
\* failed log write), so two runs with the same readings admit and suppress
\* the same alarms: one cooldown is shared by all alarms.
DecisionFromTimesOnly ==
    \A a \in Ids :
        Decided(a)
        => ( Admitted(a) <=> TimeOf(a) - LastFromTimes(a - 1) >= ALERT_INTERVAL )

\* two alarms that differ in message text and timeStamp, the first admitted
\* and the second suppressed by the cooldown the first one started
DecisionFromTimesOnlyWitness ==
    \E a, b \in Ids :
        /\ a < b /\ Admitted(a) /\ Suppressed(b)
        /\ alarms[a].messageText # alarms[b].messageText
        /\ alarms[a].timeStamp # alarms[b].timeStamp

\* C20: an alarm that has consumed the cooldown (line 123 was executed for
\* it) has, when its handler has returned, a delivery task for every SMS
\* recipient and the email task.
CooldownOnlyWithAllTasks ==
    \A a \in Ids :
        (a \in Written /\ alarms[a].returned) => AllLaunched(a)

====
